---- MODULE Spec2Model ----
(***************************************************************************)
(* A model of render.py, the render script of ppau-graphics.               *)
(*                                                                         *)
(* Paths and file contents are TLA+ strings and are manipulated character  *)
(* by character, the way the script and the tools it shells out to (find,  *)
(* grep, sed) manipulate them.  Time is a counter with finite granularity: *)
(* two writes that fall between two ticks carry the same modification      *)
(* time, as on any real file system.                                       *)
(***************************************************************************)
EXTENDS Integers, Sequences, FiniteSets, TLC

(***************************************************************************)
(* Bounds of the model.                                                    *)
(***************************************************************************)
MaxClock == 1
MaxRuns == 2

(***************************************************************************)
(* State.                                                                  *)
(***************************************************************************)
VARIABLES
    fs,             \* the regular files, apart from the manifest file
    dirs,           \* the directories
    manifestFile,   \* MANIFEST_FILE: [content, mtime], or NoManifest
    clock,          \* the time, in units of the file system's timestamps
    host,           \* the host the script runs on
    pc,             \* "idle", "tag", "render", "write", "done", "aborted"
    runs,           \* runs started
    edited,         \* an edit was made since the last run started
    BACKEND_PATH,
    SVGs,
    auth_tag_full,
    print_tag_full,
    manifest,
    si,             \* index of s in SVGs
    vi,             \* index of variant in VARIANTS
    skipcount,
    updatecount,
    notagcount,
    log,            \* this run's iterations, one record each
    mwrites,        \* this run's writes of the manifest file
    start,          \* the files, and prev, when this run started
    prev            \* the last run, if it completed and nothing has changed since

(***************************************************************************)
(* Settings of the script (render.py:19-61) at their built-in defaults.    *)
(***************************************************************************)
SOURCE_DIR_DEFAULT == "Artwork"
RENDER_DIR_DEFAULT == "Renders"
AUTH_TAG_FILE_DEFAULT == "auth_tag.txt"
PRINT_TAG_FILE_DEFAULT == "print_tag.txt"
AUTH_TAG == "PPAU_AUTH_TAG"
PRINT_TAG == "PPAU_PRINT_TAG"
FORMATS == <<"pdf", "png">>
VARIANTS == << <<"auth", TRUE, FALSE>>, <<"both", TRUE, TRUE>>, <<"none", FALSE, FALSE>> >>
MANIFEST_FILE == "MANIFEST.json"
BACKEND == "inkscape"
BACKEND_PATH_DEFAULT == "/Applications/Inkscape.app/Contents/Resources/bin/inkscape"

\* sys.path[0]: the directory that holds render.py (the project root).
SysPath0 == "/p"
\* What `which inkscape` prints on a host that has the backend on its path.
WhichPath == "/usr/bin/inkscape"
sep == "/"

(***************************************************************************)
(* Strings.                                                                *)
(***************************************************************************)
CharAt(s, i) == SubSeq(s, i, i)

\* s[i:] and s[:i] of Python, for 0 <= i (0-based, as in the source).
SliceFrom(s, i) == SubSeq(s, i + 1, Len(s))

MatchAt(s, i, pat) ==
    /\ i + Len(pat) - 1 <= Len(s)
    /\ SubSeq(s, i, i + Len(pat) - 1) = pat

\* 1-based index of the first occurrence of pat in s at or after from; 0 if none.
RECURSIVE FindFrom(_, _, _)
FindFrom(s, pat, from) ==
    IF from + Len(pat) - 1 > Len(s) THEN 0
    ELSE IF MatchAt(s, from, pat) THEN from
    ELSE FindFrom(s, pat, from + 1)

\* 1-based index of the last occurrence of the character c in s; 0 if none
\* (str.rfind(c) + 1).
RECURSIVE RFindFrom(_, _, _)
RFindFrom(s, c, i) ==
    IF i = 0 THEN 0
    ELSE IF CharAt(s, i) = c THEN i
    ELSE RFindFrom(s, c, i - 1)
rfind(s, c) == RFindFrom(s, c, Len(s))

\* str.replace(old, new): every non-overlapping occurrence, leftmost first.
RECURSIVE replace(_, _, _)
replace(s, old, new) ==
    LET i == FindFrom(s, old, 1)
    IN IF Len(old) = 0 \/ i = 0 THEN s
       ELSE SubSeq(s, 1, i - 1) \o new \o replace(SubSeq(s, i + Len(old), Len(s)), old, new)

Whitespace == {" ", "\n", "\t", "\r"}

\* str.strip()
RECURSIVE lstrip(_)
lstrip(s) == IF Len(s) > 0 /\ CharAt(s, 1) \in Whitespace THEN lstrip(Tail(s)) ELSE s
RECURSIVE rstrip(_)
rstrip(s) ==
    IF Len(s) > 0 /\ CharAt(s, Len(s)) \in Whitespace
    THEN rstrip(SubSeq(s, 1, Len(s) - 1)) ELSE s
strip(s) == rstrip(lstrip(s))

\* str.rstrip("/")
RECURSIVE rstripSep(_)
rstripSep(s) ==
    IF Len(s) > 0 /\ CharAt(s, Len(s)) = sep
    THEN rstripSep(SubSeq(s, 1, Len(s) - 1)) ELSE s

\* str.split(sep="\n"): the pieces between the newlines, as a sequence.
RECURSIVE split(_)
split(s) ==
    LET i == FindFrom(s, "\n", 1)
    IN IF i = 0 THEN <<s>>
       ELSE <<SubSeq(s, 1, i - 1)>> \o split(SubSeq(s, i + 1, Len(s)))

RECURSIVE JoinLines(_)
JoinLines(ls) ==
    IF Len(ls) = 0 THEN ""
    ELSE IF Len(ls) = 1 THEN ls[1]
    ELSE ls[1] \o "\n" \o JoinLines(Tail(ls))

(***************************************************************************)
(* os.path (posixpath).                                                    *)
(***************************************************************************)
os_path_isabs(p) == Len(p) > 0 /\ CharAt(p, 1) = sep

os_path_join(a, b) ==
    IF os_path_isabs(b) THEN b
    ELSE IF Len(a) = 0 \/ CharAt(a, Len(a)) = sep THEN a \o b
    ELSE a \o sep \o b

RECURSIVE AllSep(_)
AllSep(s) == Len(s) = 0 \/ (CharAt(s, 1) = sep /\ AllSep(Tail(s)))

\* os.path.split(p) = <<head, tail>>
os_path_split(p) ==
    LET i == rfind(p, sep)
        head == SubSeq(p, 1, i)
        tail == SubSeq(p, i + 1, Len(p))
    IN << IF Len(head) > 0 /\ ~AllSep(head) THEN rstripSep(head) ELSE head, tail >>

\* os.path.splitext(p) = <<root, ext>>
os_path_splitext(p) ==
    LET sepIndex == rfind(p, sep)
        dotIndex == rfind(p, ".")
    IN IF dotIndex > sepIndex
          /\ \E k \in (sepIndex + 1)..(dotIndex - 1) : CharAt(p, k) # "."
       THEN << SubSeq(p, 1, dotIndex - 1), SubSeq(p, dotIndex, Len(p)) >>
       ELSE << p, "" >>

\* Every proper ancestor directory of p, and p itself (what os.makedirs creates).
RECURSIVE Ancestors(_)
Ancestors(p) ==
    LET head == os_path_split(p)[1]
    IN IF Len(p) = 0 \/ AllSep(p) \/ head = p THEN {}
       ELSE {p} \cup Ancestors(head)

\* Settings after the absolute-path fix-up.
AbsFix(p) == IF Len(SysPath0) > 0 /\ ~os_path_isabs(p) THEN os_path_join(SysPath0, p) ELSE p
SOURCE_DIR == AbsFix(SOURCE_DIR_DEFAULT)
RENDER_DIR == AbsFix(RENDER_DIR_DEFAULT)
AUTH_TAG_FILE == AbsFix(AUTH_TAG_FILE_DEFAULT)
PRINT_TAG_FILE == AbsFix(PRINT_TAG_FILE_DEFAULT)


(***************************************************************************)
(* The characters the model uses, in code point order, for Python's        *)
(* ordering of strings (sorted).                                           *)
(***************************************************************************)
Ascii ==
    "\t\n\r !#&-./0123456789:<=>ABCDEFGHIJKLMNOPQRSTUVWXYZ\\_abcdefghijklmnopqrstuvwxyz"
Ord(c) == FindFrom(Ascii, c, 1)

RECURSIVE StrLess(_, _)
StrLess(a, b) ==
    IF Len(b) = 0 THEN FALSE
    ELSE IF Len(a) = 0 THEN TRUE
    ELSE IF CharAt(a, 1) = CharAt(b, 1) THEN StrLess(Tail(a), Tail(b))
    ELSE Ord(CharAt(a, 1)) < Ord(CharAt(b, 1))

\* sorted(S): the strings of S in ascending order.
RECURSIVE sorted(_)
sorted(S) ==
    IF S = {} THEN <<>>
    ELSE LET m == CHOOSE u \in S : \A v \in S \ {u} : StrLess(u, v)
         IN <<m>> \o sorted(S \ {m})

RECURSIVE Reverse(_)
Reverse(q) == IF Len(q) = 0 THEN <<>> ELSE Reverse(Tail(q)) \o <<Head(q)>>

Range(q) == { q[i] : i \in 1..Len(q) }

(***************************************************************************)
(* re.escape (Python 3.7 and later): a backslash before each character     *)
(* that is special in a regular expression, and before nothing else.       *)
(***************************************************************************)
SpecialChars ==
    {"(", ")", "[", "]", "{", "}", "?", "*", "+", "-", "|", "^", "$", "\\", ".", "&", "~",
     "#", " ", "\t", "\n", "\r"}

RECURSIVE re_escape(_)
re_escape(s) ==
    IF Len(s) = 0 THEN ""
    ELSE (IF CharAt(s, 1) \in SpecialChars THEN "\\" ELSE "") \o CharAt(s, 1)
         \o re_escape(Tail(s))

(***************************************************************************)
(* sed.  An expression s/REGEX/REPLACEMENT/FLAGS is cut at its unescaped   *)
(* delimiters; a backslash makes the next character literal.  The regex    *)
(* re.escape produces for a placeholder of letters and underscores is the  *)
(* placeholder itself.                                                     *)
(***************************************************************************)
\* 1-based index of the first unescaped "/" of s at or after i; 0 if none.
RECURSIVE NextDelim(_, _)
NextDelim(s, i) ==
    IF i > Len(s) THEN 0
    ELSE IF CharAt(s, i) = "\\" THEN NextDelim(s, i + 2)
    ELSE IF CharAt(s, i) = "/" THEN i
    ELSE NextDelim(s, i + 1)

RECURSIVE Unescape(_)
Unescape(s) ==
    IF Len(s) = 0 THEN ""
    ELSE IF CharAt(s, 1) = "\\" /\ Len(s) >= 2 THEN CharAt(s, 2) \o Unescape(SubSeq(s, 3, Len(s)))
    ELSE CharAt(s, 1) \o Unescape(Tail(s))

SedFlags == {"g", "p", "i", "I", "e", "m", "M"}

\* The parse of one -e expression: [ok, regex, repl, global].
SedParse(expr) ==
    LET d1 == NextDelim(expr, 3)
        d2 == IF d1 = 0 THEN 0 ELSE NextDelim(expr, d1 + 1)
        flags == SubSeq(expr, d2 + 1, Len(expr))
    IN IF SubSeq(expr, 1, 2) # "s/" \/ d1 = 0 \/ d2 = 0
          \/ \E k \in 1..Len(flags) : CharAt(flags, k) \notin SedFlags
       THEN [ok |-> FALSE, regex |-> "", repl |-> "", global |-> FALSE]
       ELSE [ok |-> TRUE,
             regex |-> Unescape(SubSeq(expr, 3, d1 - 1)),
             repl |-> Unescape(SubSeq(expr, d1 + 1, d2 - 1)),
             global |-> \E k \in 1..Len(flags) : CharAt(flags, k) = "g"]

\* One s command applied to one line.
SedSubst(cmd, line) ==
    IF cmd.global THEN replace(line, cmd.regex, cmd.repl)
    ELSE LET i == FindFrom(line, cmd.regex, 1)
         IN IF Len(cmd.regex) = 0 \/ i = 0 THEN line
            ELSE SubSeq(line, 1, i - 1) \o cmd.repl
                 \o SubSeq(line, i + Len(cmd.regex), Len(line))

RECURSIVE SedLines(_, _, _)
SedLines(c1, c2, ls) ==
    IF Len(ls) = 0 THEN <<>>
    ELSE <<SedSubst(c2, SedSubst(c1, Head(ls)))>> \o SedLines(c1, c2, Tail(ls))

\* The standard output of `sed -e e1 -e e2 file` on a file of this content: sed
\* reads every expression before any line, and prints nothing if one is wrong.
sed(e1, e2, content) ==
    LET c1 == SedParse(e1)
        c2 == SedParse(e2)
    IN IF c1.ok /\ c2.ok THEN JoinLines(SedLines(c1, c2, split(content))) ELSE ""

(***************************************************************************)
(* grep -cF PATTERN file: the number of lines that hold the fixed string.  *)
(***************************************************************************)
RECURSIVE CountLines(_, _)
CountLines(pat, ls) ==
    IF Len(ls) = 0 THEN 0
    ELSE (IF FindFrom(Head(ls), pat, 1) > 0 THEN 1 ELSE 0) + CountLines(pat, Tail(ls))

grep_cF(pat, content) ==
    LET ls == split(content)
    IN CountLines(pat, IF Len(content) > 0 /\ CharAt(content, Len(content)) = "\n"
                       THEN SubSeq(ls, 1, Len(ls) - 1) ELSE ls)

(***************************************************************************)
(* Files.  A file system is a function from the paths of its regular files *)
(* to [content, mtime].                                                    *)
(***************************************************************************)
NoFile == [content |-> "", mtime |-> -1]
File(fsys, p) == IF p \in DOMAIN fsys THEN fsys[p] ELSE NoFile
Remove(fsys, p) == [q \in DOMAIN fsys \ {p} |-> fsys[q]]

\* filecmp.cmp(f1, f2), shallow: equal os.stat signatures (size, mtime) settle it
\* without reading; otherwise equal sizes and equal bytes.
filecmp_cmp(f1, f2) ==
    IF Len(f1.content) = Len(f2.content) /\ f1.mtime = f2.mtime THEN TRUE
    ELSE IF Len(f1.content) # Len(f2.content) THEN FALSE
    ELSE f1.content = f2.content

\* find SOURCE_DIR -type f -name "*.svg": the paths it prints.
FindSVGs(fsys) ==
    { p \in DOMAIN fsys :
        /\ MatchAt(p, 1, SOURCE_DIR \o sep)
        /\ LET base == os_path_split(p)[2]
           IN Len(base) >= 4 /\ SubSeq(base, Len(base) - 3, Len(base)) = ".svg" }

\* find prints in directory order, which is not the sorted order: the model
\* admits the ascending and the descending order.
RECURSIVE Unlines(_)
Unlines(q) == IF Len(q) = 0 THEN "" ELSE Head(q) \o "\n" \o Unlines(Tail(q))
FindStdout(fsys) == { Unlines(sorted(FindSVGs(fsys))), Unlines(Reverse(sorted(FindSVGs(fsys)))) }

\* The tag text: the stripped content of the tag file, or the placeholder.
LoadTag(fsys, tagfile, placeholder) ==
    IF tagfile \in DOMAIN fsys THEN strip(fsys[tagfile].content) ELSE placeholder

(***************************************************************************)
(* One iteration of the loops: the names it derives for source s and       *)
(* variant (name, include auth tag, include print tag).                    *)
(***************************************************************************)
Key(s) == os_path_splitext(SliceFrom(s, Len(SOURCE_DIR) + 1))[1]

Rdir(s) == os_path_join(RENDER_DIR, replace(os_path_split(s)[1], SOURCE_DIR \o sep, ""))

RTag(s, variant) ==
    LET sbase == os_path_split(s)[2]
        r_tag_root == os_path_splitext(sbase)[1]
        r_tag_ext == os_path_splitext(sbase)[2]
    IN os_path_join(Rdir(s), r_tag_root \o "-" \o variant[1] \o r_tag_ext)

ROut(s, variant, ftype) ==
    LET r_tag_root == os_path_splitext(os_path_split(s)[2])[1]
    IN os_path_join(Rdir(s), r_tag_root \o "-" \o variant[1]) \o "." \o ftype

\* What is appended to manifest[key] for r_out.
ManifestEntry(r_out) == SliceFrom(r_out, Len(RENDER_DIR) + 1)

auth_tag_var(variant, auth_full) == IF variant[2] THEN auth_full ELSE ""
print_tag_var(variant, print_full) == IF variant[3] THEN print_full ELSE ""

\* The grep checks: whether the variant is skipped for a source of this content.
NoAuthTag(variant, content) == variant[2] /\ grep_cF(AUTH_TAG, content) < 1
NoPrintTag(variant, content) == variant[3] /\ grep_cF(PRINT_TAG, content) < 1
\* NoTag with a fault seeded: the grep for the print placeholder is left out.
NoTagAuthOnly(variant, content) == NoAuthTag(variant, content)

NoTag(variant, content) == NoAuthTag(variant, content) \/ NoPrintTag(variant, content)

\* The sed run: the content of the temporary file.
Tagged(content, variant, auth_full, print_full) ==
    sed("s/" \o re_escape(AUTH_TAG) \o "/" \o re_escape(auth_tag_var(variant, auth_full)) \o "/g",
        "s/" \o re_escape(PRINT_TAG) \o "/" \o re_escape(print_tag_var(variant, print_full)) \o "/g",
        content)

\* Updating with a fault seeded: the tagged SVG is copied over without the comparison.
UpdatingAlways(fsys, r_tag, tmp) == TRUE

\* Whether the tagged SVG is copied over the existing one.
Updating(fsys, r_tag, tmp) == ~(r_tag \in DOMAIN fsys) \/ ~filecmp_cmp(fsys[r_tag], tmp)

\* UpToDate with a fault seeded: an output file as old as the tagged SVG is rendered again.
UpToDateStrict(fsys, r_tag, r_out) ==
    r_out \in DOMAIN fsys /\ fsys[r_tag].mtime < fsys[r_out].mtime

\* The test of lines 317-321: the output file is not rendered again.
UpToDate(fsys, r_tag, r_out) ==
    r_out \in DOMAIN fsys /\ fsys[r_tag].mtime <= fsys[r_out].mtime

ExportFlag(ftype) == IF ftype = "png" THEN <<"-e">> ELSE IF ftype = "pdf" THEN <<"-A">> ELSE <<>>

\* The format loop: renderargs after the formats from index i on.
RECURSIVE RenderArgs(_, _, _, _)
RenderArgs(fsys, s, variant, i) ==
    IF i > Len(FORMATS) THEN <<>>
    ELSE LET r_out == ROut(s, variant, FORMATS[i])
         IN (IF UpToDate(fsys, RTag(s, variant), r_out) \/ ExportFlag(FORMATS[i]) = <<>> THEN <<>>
             ELSE ExportFlag(FORMATS[i]) \o <<r_out>>)
            \o RenderArgs(fsys, s, variant, i + 1)

\* Appended with a fault seeded: only the formats that are rendered are appended.
RECURSIVE AppendedIfRendered(_, _, _)
AppendedIfRendered(s, variant, i) ==
    IF i > Len(FORMATS) THEN <<>>
    ELSE (IF UpToDate(fs, RTag(s, variant), ROut(s, variant, FORMATS[i])) THEN <<>>
          ELSE <<ManifestEntry(ROut(s, variant, FORMATS[i]))>>)
         \o AppendedIfRendered(s, variant, i + 1)

\* The format loop: what it appends to manifest[key].
RECURSIVE Appended(_, _, _)
Appended(s, variant, i) ==
    IF i > Len(FORMATS) THEN <<>>
    ELSE <<ManifestEntry(ROut(s, variant, FORMATS[i]))>> \o Appended(s, variant, i + 1)

\* How many formats the loop found up to date (skipcount).
RECURSIVE Skipped(_, _, _, _)
Skipped(fsys, s, variant, i) ==
    IF i > Len(FORMATS) THEN 0
    ELSE (IF UpToDate(fsys, RTag(s, variant), ROut(s, variant, FORMATS[i])) THEN 1 ELSE 0)
         + Skipped(fsys, s, variant, i + 1)

\* The backend cannot open a file that holds no document, and then writes nothing.
BackendWorks(content) == Len(content) > 0

\* What the backend writes for one export instruction.
Rendered(flag, content) == (IF flag = "-e" THEN "png:" ELSE "pdf:") \o content

\* The file system after a backend run that honours renderargs for r_tag at time t.
RECURSIVE Export(_, _, _, _)
Export(fsys, renderargs, r_tag, t) ==
    IF Len(renderargs) < 2 THEN fsys
    ELSE Export((renderargs[2] :> [content |-> Rendered(renderargs[1], fsys[r_tag].content),
                                   mtime |-> t]) @@ fsys,
                SubSeq(renderargs, 3, Len(renderargs)), r_tag, t)

\* The manifest as written: one single-key object per key, in sorted key order.
Dumped(man) ==
    LET keys == sorted(DOMAIN man)
    IN [i \in 1..Len(keys) |-> <<keys[i], man[keys[i]]>>]

(***************************************************************************)
(* The inputs the model draws from.                                        *)
(***************************************************************************)
SrcRoot == SOURCE_DIR \o "/logo.svg"
SrcSub == SOURCE_DIR \o "/d/b.svg"
SrcDot == SOURCE_DIR \o "/d.e/a.svg"

BothTags == "PPAU_AUTH_TAG\n<PPAU_PRINT_TAG>\n"
PrintOnly == "<PPAU_PRINT_TAG>"
AuthOnly == "PPAU_AUTH_TAG\n"
Plain == "<svg/>\n"

OrgA == "Org A\n"
Slash == "1/2 St\n"
Shop1 == "Shop 1\n"
AuthTexts == {OrgA, Slash}

\* A host: whether BACKEND_PATH exists, whether os.name is "posix", and what
\* `which inkscape` prints.
Configured == [configured |-> TRUE, posix |-> TRUE, which |-> ""]
OnPath == [configured |-> FALSE, posix |-> TRUE, which |-> WhichPath \o "\n"]
NotOnPath == [configured |-> FALSE, posix |-> TRUE, which |-> ""]
NotPosix == [configured |-> FALSE, posix |-> FALSE, which |-> ""]

\* What an earlier run that was set to render PDF only left behind for a source
\* SrcSub of content Plain.
PdfOnly ==
    (RENDER_DIR \o "/d/b-none.svg" :> [content |-> Plain, mtime |-> 0])
    @@ (RENDER_DIR \o "/d/b-none.pdf" :> [content |-> "pdf:" \o Plain, mtime |-> 0])

\* The scenarios a behaviour starts from: the sources with their contents, what
\* the render directory holds, the two tag files ("" for a missing file) and the
\* host.
Scenarios ==
    { [tree |-> (SrcSub :> BothTags), renders |-> <<>>, auth |-> OrgA, print |-> Shop1,
       host |-> Configured],
      [tree |-> (SrcSub :> BothTags), renders |-> <<>>, auth |-> Slash, print |-> Shop1,
       host |-> Configured],
      [tree |-> (SrcSub :> PrintOnly), renders |-> <<>>, auth |-> OrgA, print |-> Shop1,
       host |-> Configured],
      [tree |-> (SrcSub :> AuthOnly), renders |-> <<>>, auth |-> OrgA, print |-> "",
       host |-> OnPath],
      [tree |-> (SrcRoot :> Plain), renders |-> <<>>, auth |-> "", print |-> "",
       host |-> Configured],
      [tree |-> (SrcDot :> Plain) @@ (SrcSub :> AuthOnly), renders |-> <<>>, auth |-> OrgA,
       print |-> Shop1, host |-> OnPath],
      [tree |-> (SrcSub :> Plain), renders |-> PdfOnly, auth |-> "", print |-> "",
       host |-> Configured],
      [tree |-> (SrcSub :> BothTags), renders |-> <<>>, auth |-> OrgA, print |-> Shop1,
       host |-> NotOnPath],
      [tree |-> (SrcSub :> BothTags), renders |-> <<>>, auth |-> OrgA, print |-> Shop1,
       host |-> NotPosix] }

NoManifest == [content |-> <<>>, mtime |-> -1]

vars ==
    << fs, dirs, manifestFile, clock, host, pc, runs, edited, BACKEND_PATH, SVGs,
       auth_tag_full, print_tag_full, manifest, si, vi, skipcount, updatecount, notagcount,
       log, mwrites, start, prev >>

env == << host >>
locals ==
    << BACKEND_PATH, SVGs, auth_tag_full, print_tag_full, manifest, si, vi, skipcount,
       updatecount, notagcount >>

NoPrev == [ok |-> FALSE, svgs |-> {}, manifest |-> <<>>]

Init ==
    /\ \E sc \in Scenarios :
        /\ fs = [f \in DOMAIN sc.tree |-> [content |-> sc.tree[f], mtime |-> 0]]
                @@ sc.renders
                @@ (IF sc.auth = "" THEN <<>>
                    ELSE (AUTH_TAG_FILE :> [content |-> sc.auth, mtime |-> 0]))
                @@ (IF sc.print = "" THEN <<>>
                    ELSE (PRINT_TAG_FILE :> [content |-> sc.print, mtime |-> 0]))
        /\ dirs = UNION { Ancestors(os_path_split(f)[1]) :
                             f \in DOMAIN sc.tree \cup DOMAIN sc.renders }
        /\ host = sc.host
    /\ manifestFile = NoManifest
    /\ clock = 0
    /\ pc = "idle"
    /\ runs = 0
    /\ edited = FALSE
    /\ BACKEND_PATH = BACKEND_PATH_DEFAULT
    /\ SVGs = <<>>
    /\ auth_tag_full = ""
    /\ print_tag_full = ""
    /\ manifest = <<>>
    /\ si = 0
    /\ vi = 0
    /\ skipcount = 0
    /\ updatecount = 0
    /\ notagcount = 0
    /\ log = <<>>
    /\ mwrites = 0
    /\ start = [fs |-> <<>>, dirs |-> {}, manifestFile |-> NoManifest, prev |-> NoPrev]
    /\ prev = NoPrev

(***************************************************************************)
(* Where the loops stand.                                                  *)
(***************************************************************************)
\* The first s at or after index i that the loop does not skip as empty.
RECURSIVE FirstFrom(_, _)
FirstFrom(svgs, i) ==
    IF i > Len(svgs) THEN [pc |-> "write", si |-> 0, vi |-> 0]
    ELSE IF Len(svgs[i]) = 0 THEN FirstFrom(svgs, i + 1)
    ELSE [pc |-> "tag", si |-> i, vi |-> 1]

\* Where the loops stand after the iteration for (i, v).
After(svgs, i, v) ==
    IF v < Len(VARIANTS) THEN [pc |-> "tag", si |-> i, vi |-> v + 1]
    ELSE FirstFrom(svgs, i + 1)

(***************************************************************************)
(* Start of a run: backend discovery, source enumeration, tag loading.     *)
(***************************************************************************)
BackendFound == host.configured \/ (host.posix /\ strip(host.which) # "")

Fresh ==
    /\ runs' = runs + 1
    /\ log' = <<>>
    /\ mwrites' = 0
    /\ start' = [fs |-> fs, dirs |-> dirs, manifestFile |-> manifestFile, prev |-> prev]
    /\ prev' = NoPrev
    /\ skipcount' = 0
    /\ updatecount' = 0
    /\ notagcount' = 0
    /\ manifest' = <<>>
    /\ edited' = FALSE
    /\ UNCHANGED << fs, dirs, manifestFile, clock, env >>

StartNoBackend ==
    /\ pc \in {"idle", "done"}
    /\ runs < MaxRuns
    /\ ~BackendFound
    /\ Fresh
    /\ pc' = "aborted"
    /\ BACKEND_PATH' = BACKEND_PATH_DEFAULT
    /\ SVGs' = <<>>
    /\ auth_tag_full' = ""
    /\ print_tag_full' = ""
    /\ si' = 0
    /\ vi' = 0

Start ==
    /\ pc \in {"idle", "done"}
    /\ runs < MaxRuns
    /\ BackendFound
    /\ Fresh
    /\ BACKEND_PATH' = IF host.configured THEN BACKEND_PATH_DEFAULT ELSE strip(host.which)
    /\ \E out \in FindStdout(fs) :
        /\ SVGs' = split(strip(out))
        /\ LET first == FirstFrom(split(strip(out)), 1)
           IN pc' = first.pc /\ si' = first.si /\ vi' = first.vi
    /\ auth_tag_full' = LoadTag(fs, AUTH_TAG_FILE, AUTH_TAG)
    /\ print_tag_full' = LoadTag(fs, PRINT_TAG_FILE, PRINT_TAG)

(***************************************************************************)
(* One variant of one source, up to the tagged SVG (lines 231-304).        *)
(***************************************************************************)
TagStep ==
    /\ pc = "tag"
    /\ LET s == SVGs[si]
           variant == VARIANTS[vi]
           key == Key(s)
           rdir == Rdir(s)
           r_tag == RTag(s, variant)
           content == fs[s].content
           tmp == [content |-> Tagged(content, variant, auth_tag_full, print_tag_full),
                   mtime |-> clock]
           skip == NoTag(variant, content)
           write == ~skip /\ Updating(fs, r_tag, tmp)
           next == After(SVGs, si, vi)
           entry == [s |-> s, vi |-> vi, key |-> key, src |-> content, skipped |-> skip,
                     r_tag |-> r_tag, tmp |-> tmp.content, before |-> File(fs, r_tag),
                     wrote |-> write, after |-> IF write THEN tmp ELSE File(fs, r_tag), outs |-> <<>>, args |-> <<>>, argv |-> <<>>,
                     calls |-> 0, created |-> TRUE, appended |-> <<>>, rendered |-> FALSE]
       IN /\ manifest' = IF vi = 1 THEN (key :> <<>>) @@ [k \in DOMAIN manifest \ {key} |-> manifest[k]]
                         ELSE manifest
          /\ dirs' = IF rdir \in dirs \/ rdir \in DOMAIN fs THEN dirs ELSE dirs \cup Ancestors(rdir)
          /\ fs' = IF write THEN (r_tag :> tmp) @@ fs ELSE fs
          /\ log' = Append(log, entry)
          /\ notagcount' = IF skip THEN notagcount + 1 ELSE notagcount
          /\ IF skip
             THEN pc' = next.pc /\ si' = next.si /\ vi' = next.vi
             ELSE pc' = "render" /\ UNCHANGED << si, vi >>
    /\ UNCHANGED << manifestFile, clock, env, runs, edited, BACKEND_PATH, SVGs, auth_tag_full,
                    print_tag_full, skipcount, updatecount, mwrites, start, prev >>

(***************************************************************************)
(* The format loop and the backend invocation (lines 306-339).             *)
(***************************************************************************)
RenderStep ==
    /\ pc = "render"
    /\ LET s == SVGs[si]
           variant == VARIANTS[vi]
           key == Key(s)
           r_tag == RTag(s, variant)
           renderargs == RenderArgs(fs, s, variant, 1)
           nskip == Skipped(fs, s, variant, 1)
           next == After(SVGs, si, vi)
           invoked == Len(renderargs) > 0
           works == ~invoked \/ BackendWorks(fs[r_tag].content)
       IN /\ manifest' = [manifest EXCEPT ![key] = @ \o Appended(s, variant, 1)]
          /\ skipcount' = skipcount + nskip
          /\ updatecount' = updatecount + (Len(FORMATS) - nskip)
          /\ fs' = IF invoked /\ works THEN Export(fs, renderargs, r_tag, clock) ELSE fs
          /\ log' = [log EXCEPT ![Len(log)] =
                      [@ EXCEPT !.outs = [i \in 1..Len(FORMATS) |->
                                                  File(fs, ROut(s, variant, FORMATS[i]))],
                                      !.args = renderargs,
                                      !.argv = IF invoked
                                               THEN <<BACKEND_PATH, "-z">> \o renderargs \o <<"-f", r_tag>>
                                               ELSE <<>>,
                                      !.calls = IF invoked THEN 1 ELSE 0,
                                      !.created = works,
                                      !.appended = Appended(s, variant, 1),
                                      !.rendered = TRUE]]
          /\ pc' = next.pc /\ si' = next.si /\ vi' = next.vi
    /\ UNCHANGED << dirs, manifestFile, clock, env, runs, edited, BACKEND_PATH, SVGs,
                    auth_tag_full, print_tag_full, notagcount, mwrites, start, prev >>

(***************************************************************************)
(* The manifest write (lines 343-345).                                     *)
(***************************************************************************)
WriteManifest ==
    /\ pc = "write"
    /\ manifestFile' = [content |-> Dumped(manifest), mtime |-> clock]
    /\ mwrites' = mwrites + 1
    /\ pc' = "done"
    /\ prev' = [ok |-> \A i \in 1..Len(log) : log[i].created,
                svgs |-> Range(SVGs), manifest |-> Dumped(manifest)]
    /\ UNCHANGED << fs, dirs, clock, env, runs, edited, locals, log, start >>

\* Abort with a fault seeded: the manifest is written on the way out of a failed run.
AbortFlushing ==
    /\ pc \in {"tag", "render", "write"}
    /\ pc' = "aborted"
    /\ manifestFile' = [content |-> Dumped(manifest), mtime |-> clock]
    /\ UNCHANGED << fs, dirs, clock, env, runs, edited, locals, log, mwrites, start, prev >>

(***************************************************************************)
(* An unhandled error of a file operation ends the process.                *)
(***************************************************************************)
Abort ==
    /\ pc \in {"tag", "render", "write"}
    /\ pc' = "aborted"
    /\ UNCHANGED << fs, dirs, manifestFile, clock, env, runs, edited, locals, log, mwrites,
                    start, prev >>

(***************************************************************************)
(* The environment.  Time passes between the write of a tagged SVG and the *)
(* backend's output for it, and between runs: the only modification times  *)
(* the script compares are those of a tagged SVG and of its own output     *)
(* files.  Between a completed run and the next the authorisation tag file *)
(* is replaced or removed, or a source loses its placeholders.  The model  *)
(* follows the runs up to the first that aborts.                           *)
(***************************************************************************)
Tick ==
    /\ clock < MaxClock
    /\ pc = "render" \/ (pc = "done" /\ runs < MaxRuns)
    /\ clock' = clock + 1
    /\ UNCHANGED << fs, dirs, manifestFile, env, pc, runs, edited, locals, log, mwrites,
                    start, prev >>

Between == pc = "done" /\ runs < MaxRuns /\ ~edited

EditTagFile ==
    /\ Between
    /\ \E a \in AuthTexts \cup {""} :
        /\ a # File(fs, AUTH_TAG_FILE).content
        /\ fs' = IF a = "" THEN Remove(fs, AUTH_TAG_FILE)
                 ELSE (AUTH_TAG_FILE :> [content |-> a, mtime |-> clock]) @@ fs
    /\ edited' = TRUE
    /\ prev' = NoPrev
    /\ UNCHANGED << dirs, manifestFile, clock, host, pc, runs, locals, log, mwrites, start >>

EditSource ==
    /\ Between
    /\ \E f \in {SrcRoot, SrcSub} \cap DOMAIN fs :
        /\ fs[f].content # Plain
        /\ fs' = [fs EXCEPT ![f] = [content |-> Plain, mtime |-> clock]]
    /\ edited' = TRUE
    /\ prev' = NoPrev
    /\ UNCHANGED << dirs, manifestFile, clock, host, pc, runs, locals, log, mwrites, start >>

Next ==
    \/ Start
    \/ StartNoBackend
    \/ TagStep
    \/ RenderStep
    \/ WriteManifest
    \/ Abort
    \/ Tick
    \/ EditTagFile
    \/ EditSource

Spec == Init /\ [][Next]_vars

(***************************************************************************)
(* The properties.  Each is stated over log, the record of the iterations  *)
(* of the run in progress (or just ended), and over the files.             *)
(***************************************************************************)
Entries == { log[i] : i \in 1..Len(log) }
Done == { e \in Entries : e.rendered }
Include(e, placeholder) ==
    IF placeholder = AUTH_TAG THEN VARIANTS[e.vi][2] ELSE VARIANTS[e.vi][3]

\* The placeholder occurs literally in the content.
Occurs(placeholder, content) == \E i \in 1..Len(content) : MatchAt(content, i, placeholder)

\* C3 (tag gating): a variant is skipped if and only if the source lacks a
\* placeholder the variant includes; a skipped variant leaves its tagged SVG and
\* its output files as they were when the run started and adds no path to the
\* manifest entry, a variant that is not skipped adds one path per format; the
\* variant "none" is never skipped.
C3_TagGating ==
    /\ \A e \in Entries :
        /\ e.skipped <=> \E ph \in {AUTH_TAG, PRINT_TAG} : Include(e, ph) /\ ~Occurs(ph, e.src)
        /\ VARIANTS[e.vi][1] = "none" => ~e.skipped
        /\ e.skipped =>
            /\ File(fs, e.r_tag) = File(start.fs, e.r_tag)
            /\ \A i \in 1..Len(FORMATS) :
                 LET r_out == ROut(e.s, VARIANTS[e.vi], FORMATS[i])
                 IN File(fs, r_out) = File(start.fs, r_out)
            /\ ~e.rendered /\ e.calls = 0
    /\ \A k \in DOMAIN manifest :
        Len(manifest[k]) = Len(FORMATS) * Cardinality({ e \in Done : e.key = k })

\* A run is over in which a source with the print placeholder alone had its
\* variants "auth" and "both" skipped and its variant "none" rendered.
C3_Witness ==
    /\ pc = "done"
    /\ \E e1, e2, e3 \in Entries :
        /\ e1.s = e2.s /\ e2.s = e3.s
        /\ Occurs(PRINT_TAG, e1.src) /\ ~Occurs(AUTH_TAG, e1.src)
        /\ e1.vi = 1 /\ e1.skipped
        /\ e2.vi = 2 /\ e2.skipped
        /\ e3.vi = 3 /\ ~e3.skipped /\ e3.calls = 1 /\ e3.created
        /\ Len(manifest[e3.key]) = Len(FORMATS)

\* C4 (byte-identical suppression): when a variant is processed and its tagged
\* SVG exists with exactly the content substitution produces, the file is not
\* written: it is, from then to the end of the run, the file it was when the run
\* started, modification time included.
C4_IdenticalNotRewritten ==
    \A e \in Entries :
        (~e.skipped /\ e.before # NoFile /\ e.before.content = e.tmp) =>
            /\ ~e.wrote
            /\ e.before = File(start.fs, e.r_tag)
            /\ File(fs, e.r_tag) = e.before

\* A run is over that found a tagged SVG identical to the substitution, written
\* at an earlier time than the run's.
C4_Witness ==
    /\ pc = "done"
    /\ \E e \in Entries :
        /\ ~e.skipped /\ e.before # NoFile /\ e.before.content = e.tmp
        /\ e.before.mtime < clock
        /\ fs[e.r_tag].mtime = e.before.mtime

\* The formats the claim has requested for a processed variant: those whose output
\* file was absent, or older than the tagged SVG, when the format loop ran.
Requested(e) ==
    { i \in 1..Len(FORMATS) : e.outs[i] = NoFile \/ e.outs[i].mtime < e.after.mtime }

\* C5 (staleness and batching): for every processed variant the backend is run
\* once if some format is requested and not at all otherwise; its arguments are
\* the batch flag, one export instruction per requested format and no other,
\* and the tagged SVG as input.
C5_StaleFormatsBatched ==
    \A e \in Done :
        /\ e.calls = (IF Requested(e) = {} THEN 0 ELSE 1)
        /\ Len(e.args) = 2 * Cardinality(Requested(e))
        /\ \A i \in Requested(e) :
            \E j \in 1..Len(e.args) - 1 :
                /\ e.args[j] = (IF FORMATS[i] = "pdf" THEN "-A" ELSE "-e")
                /\ e.args[j + 1] = ROut(e.s, VARIANTS[e.vi], FORMATS[i])
        /\ e.calls = 1 => e.argv = <<BACKEND_PATH, "-z">> \o e.args \o <<"-f", e.r_tag>>
        /\ e.calls = 0 => e.argv = <<>>

\* A variant was processed with one output file exactly as old as its tagged SVG,
\* which was not requested, and another absent, which was: one backend run with
\* one export instruction.
C5_Witness ==
    \E e \in Done :
        /\ Cardinality(Requested(e)) = 1
        /\ \E i \in 1..Len(FORMATS) : e.outs[i] # NoFile /\ e.outs[i].mtime = e.after.mtime
        /\ e.calls = 1
        /\ Len(e.args) = 2

\* The paths as the specification derives them for a source s at
\* <sourceRoot>/<relativeDir>/<basename><ext>.
ClaimedRelDir(s) ==
    LET dir == os_path_split(s)[1]
    IN IF dir = SOURCE_DIR THEN "" ELSE SliceFrom(dir, Len(SOURCE_DIR) + 1)
ClaimedStem(s, variant) ==
    (IF ClaimedRelDir(s) = "" THEN "" ELSE ClaimedRelDir(s) \o "/")
    \o os_path_splitext(os_path_split(s)[2])[1] \o "-" \o variant[1]
ClaimedTag(s, variant) ==
    RENDER_DIR \o "/" \o ClaimedStem(s, variant) \o os_path_splitext(os_path_split(s)[2])[2]
ClaimedOut(s, variant, ftype) == RENDER_DIR \o "/" \o ClaimedStem(s, variant) \o "." \o ftype
ClaimedManifestPath(s, variant, ftype) == ClaimedStem(s, variant) \o "." \o ftype

Sources == { SVGs[i] : i \in 1..Len(SVGs) } \ {""}
EntryOf(k, v) == CHOOSE e \in Entries : e.key = k /\ e.vi = v

\* The list the manifest holds for key k: for each variant from v on that was not
\* skipped, the path of every format, in the order of FORMATS.
RECURSIVE ExpectedList(_, _)
ExpectedList(k, v) ==
    IF v > Len(VARIANTS) THEN <<>>
    ELSE (IF EntryOf(k, v).skipped THEN <<>>
          ELSE [i \in 1..Len(FORMATS) |->
                  ClaimedManifestPath(EntryOf(k, v).s, VARIANTS[v], FORMATS[i])])
         \o ExpectedList(k, v + 1)

AllProcessed ==
    /\ Len(log) = Len(VARIANTS) * Cardinality(Sources)
    /\ \A e \in Entries : e.skipped \/ e.rendered

\* C9 (no partial manifest): in a run the manifest file is written once, when
\* every variant of every source has been processed; until then, and in a run
\* that aborts, it is the file it was when the run started; and a run that finds
\* no backend ends with no source enumerated and no file or directory changed.
C9_NoPartialManifest ==
    /\ mwrites <= 1
    /\ mwrites = 1 <=> (pc = "done" /\ runs > 0)
    /\ mwrites = 1 => AllProcessed
    /\ mwrites = 0 => manifestFile = start.manifestFile
    /\ (pc = "aborted" /\ ~BackendFound) =>
          /\ SVGs = <<>> /\ log = <<>>
          /\ fs = start.fs /\ dirs = start.dirs

\* A second run has aborted part of the way, the manifest of the first in place.
C9_Witness ==
    /\ pc = "aborted"
    /\ start.manifestFile # NoManifest
    /\ manifestFile = start.manifestFile
    /\ \E e \in Entries : e.wrote
    /\ ~AllProcessed

\* The content the specification gives a tagged SVG: the source with each
\* placeholder the variant includes replaced by its tag text, and each placeholder
\* it excludes left as it is.
ClaimedContent(src, variant) ==
    replace(replace(src, AUTH_TAG, IF variant[2] THEN auth_tag_full ELSE AUTH_TAG),
            PRINT_TAG, IF variant[3] THEN print_tag_full ELSE PRINT_TAG)

\* C2 (content of a tagged SVG): what is written for a variant that is not
\* skipped is the source with the included placeholders replaced by their tag
\* texts and the excluded placeholders left literally present.
C2_ContentAsClaimed ==
    \A e \in Entries : (~e.skipped /\ e.wrote) =>
        /\ e.tmp = ClaimedContent(e.src, VARIANTS[e.vi])
        /\ fs[e.r_tag].content = ClaimedContent(e.src, VARIANTS[e.vi])

\* C7 (path derivation): the tagged SVG, the output files and the manifest paths
\* of every processed variant are the ones derived from the render root, the
\* source's directory relative to the source root, its base name and the variant.
C7_PathsAsClaimed ==
    \A e \in Entries : ~e.skipped =>
        /\ e.r_tag = ClaimedTag(e.s, VARIANTS[e.vi])
        /\ \A i \in 1..Len(FORMATS) :
            /\ ROut(e.s, VARIANTS[e.vi], FORMATS[i]) = ClaimedOut(e.s, VARIANTS[e.vi], FORMATS[i])
            /\ e.rendered => e.appended[i] = ClaimedManifestPath(e.s, VARIANTS[e.vi], FORMATS[i])

Under(p, dir) == MatchAt(p, 1, dir \o sep)

\* C8 (sources are read-only): while a run is in progress or just over, every
\* file under the source root is a file that was there, unchanged, when the run
\* started, and every file or directory the run has made or changed lies under
\* the render root.
C8_SourcesUntouched ==
    (runs > 0 /\ ~edited) =>
        /\ \A p \in DOMAIN fs :
            Under(p, SOURCE_DIR) => p \in DOMAIN start.fs /\ fs[p] = start.fs[p]
        /\ \A p \in DOMAIN fs :
            File(start.fs, p) # fs[p] => Under(p, RENDER_DIR)
        /\ \A d \in dirs \ start.dirs : d = RENDER_DIR \/ Under(d, RENDER_DIR)

\* C1 (idempotence): a run that repeats a completed run, the backend having
\* made every output and nothing having changed between the two, writes no
\* tagged SVG, never runs the backend, enumerates the same sources and leaves
\* the same manifest.
C1_SecondRunIdle ==
    (pc = "done" /\ start.prev.ok) =>
        /\ \A e \in Entries : ~e.wrote /\ e.calls = 0
        /\ Sources = start.prev.svgs
        /\ manifestFile.content = start.prev.manifest

\* C10 (a rewrite forces re-rendering): whenever a tagged SVG is written, it is
\* newer than every output file of it that existed, and every format is requested
\* from the backend in the same iteration.
C10_RewriteRendersAll ==
    \A e \in Done : e.wrote =>
        /\ \A i \in 1..Len(FORMATS) : e.outs[i] # NoFile => e.outs[i].mtime < e.after.mtime
        /\ Requested(e) = 1..Len(FORMATS)
        /\ e.calls = 1
        /\ Len(e.args) = 2 * Len(FORMATS)
====
